---- MODULE Spec2Model ----
(***************************************************************************)
(* Model of complete_job_generator.py: the two tiered classifiers          *)
(* (_get_experience_level, _infer_industry), their deterministic           *)
(* fallbacks, and the run of main(): generate -> json.loads ->             *)
(* save_job_description.                                                   *)
(*                                                                         *)
(* Python strings are TLA+ strings; Len, \o and SubSeq act on them.        *)
(* A float number of years is an integer count of 1/YearsScale years.      *)
(***************************************************************************)
EXTENDS Integers, Sequences, FiniteSets, TLC

\* Resolution of the experience value: years are counted in 1/YearsScale.
YearsScale == 2
\* Largest experience value (in whole years) drawn for a request.
MaxYears == 26

None == "<None>"

------------------------------------------------------------------------------
(* Python string primitives *)

\* s.startswith(k) for k in s
IsPrefix(k, s) == Len(k) <= Len(s) /\ SubSeq(s, 1, Len(k)) = k

\* k in s
IsSubstring(k, s) ==
    \E i \in 0..(Len(s) - Len(k)) : SubSeq(s, i + 1, i + Len(k)) = k

UpperChars == "ABCDEFGHIJKLMNOPQRSTUVWXYZ"
LowerChars == "abcdefghijklmnopqrstuvwxyz"

LowerChar(c) ==
    IF \E i \in 1..Len(UpperChars) : SubSeq(UpperChars, i, i) = c
    THEN LET i == CHOOSE j \in 1..Len(UpperChars) : SubSeq(UpperChars, j, j) = c
         IN  SubSeq(LowerChars, i, i)
    ELSE c

RECURSIVE lower(_)
\* str.lower()
lower(s) ==
    IF Len(s) = 0 THEN ""
    ELSE LowerChar(SubSeq(s, 1, 1)) \o lower(SubSeq(s, 2, Len(s)))

Whitespace == {" ", "\n", "\t"}

RECURSIVE lstrip(_)
lstrip(s) ==
    IF Len(s) > 0 /\ SubSeq(s, 1, 1) \in Whitespace
    THEN lstrip(SubSeq(s, 2, Len(s)))
    ELSE s

RECURSIVE rstrip(_)
rstrip(s) ==
    IF Len(s) > 0 /\ SubSeq(s, Len(s), Len(s)) \in Whitespace
    THEN rstrip(SubSeq(s, 1, Len(s) - 1))
    ELSE s

\* str.strip()
strip(s) == rstrip(lstrip(s))

RECURSIVE SplitFrom(_, _, _)
\* the set of whitespace-separated tokens of s from position i on, cur being
\* the token read so far
SplitFrom(s, i, cur) ==
    IF i > Len(s)
    THEN IF cur = "" THEN {} ELSE {cur}
    ELSE IF SubSeq(s, i, i) \in Whitespace
         THEN (IF cur = "" THEN {} ELSE {cur}) \cup SplitFrom(s, i + 1, "")
         ELSE SplitFrom(s, i + 1, cur \o SubSeq(s, i, i))

\* set(s.split())
tokens_of(s) == SplitFrom(s, 1, "")

\* the elements of a sequence
Range(seq) == {seq[i] : i \in 1..Len(seq)}

\* any(kw in text for kw in keywords)
AnyIn(keywords, text) == \E i \in 1..Len(keywords) : IsSubstring(keywords[i], text)

------------------------------------------------------------------------------
(* Experience level *)

valid_levels ==
    {"Entry Level", "Junior", "Mid-Level", "Senior",
     "Lead", "Principal", "Manager", "Director",
     "Executive", "C-Level"}

\* years <= n for years < n
YearsAtMost(years, n) == years <= n * YearsScale

\* years < n, years being a count of 1/YearsScale and n a whole number
YearsBelow(years, n) == years < n * YearsScale

\* the years ladder that ends _fallback_experience_level
YearsLadder(years) ==
    IF YearsBelow(years, 1) THEN "Entry Level"
    ELSE IF YearsBelow(years, 3) THEN "Junior"
    ELSE IF YearsBelow(years, 7) THEN "Mid-Level"
    ELSE IF YearsBelow(years, 12) THEN "Senior"
    ELSE IF YearsBelow(years, 18) THEN "Manager"
    ELSE IF YearsBelow(years, 25) THEN "Director"
    ELSE "Executive"

_fallback_experience_level(years, job_title) ==
    LET title_lower == lower(job_title) IN
    IF AnyIn(<<"intern", "trainee", "apprentice">>, title_lower) THEN "Entry Level"
    ELSE IF AnyIn(<<"junior", "assistant", "associate">>, title_lower) THEN "Junior"
    ELSE IF AnyIn(<<"senior", "sr.">>, title_lower) THEN "Senior"
    ELSE IF AnyIn(<<"lead", "head", "principal">>, title_lower)
         THEN (IF ~IsSubstring("principal", title_lower) THEN "Lead" ELSE "Principal")
    ELSE IF AnyIn(<<"manager">>, title_lower) THEN "Manager"
    ELSE IF AnyIn(<<"director">>, title_lower) THEN "Director"
    ELSE IF AnyIn(<<"vp", "vice president">>, title_lower) THEN "Executive"
    ELSE IF AnyIn(<<"chief", "cfo", "ceo", "coo", "cto", "cio", "cmo", "c-level">>,
                  title_lower)
         THEN "C-Level"
    ELSE YearsLadder(years)

------------------------------------------------------------------------------
(* Industry *)

\* the dict of _fallback_industry_inference, in insertion order
industry_keywords == <<
    [industry |-> "Technology & Software Development",
     keywords |-> <<"software", "developer", "engineer", "programmer", "it", "coding",
                    "devops", "architect", "qa", "web", "full stack", "backend",
                    "frontend", "cloud">>],
    [industry |-> "Artificial Intelligence & Machine Learning",
     keywords |-> <<"ai", "artificial intelligence", "ml", "machine learning", "nlp",
                    "deep learning", "cv", "computer vision", "data scientist",
                    "data science">>],
    [industry |-> "Cybersecurity & Information Security",
     keywords |-> <<"cybersecurity", "infosec", "security analyst",
                    "penetration tester", "ethical hacker", "cryptography",
                    "network security">>],
    [industry |-> "Data Analytics & Business Intelligence",
     keywords |-> <<"data analyst", "data engineer", "bi", "business intelligence",
                    "analytics">>],
    [industry |-> "Financial Services & Banking",
     keywords |-> <<"finance", "bank", "investment", "accounting", "auditor",
                    "analyst", "treasury", "audit", "equity", "loan", "credit",
                    "wealth">>],
    [industry |-> "Financial Technology (FinTech)",
     keywords |-> <<"fintech", "blockchain", "crypto", "defi", "digital payments",
                    "mobile banking", "trading platform">>],
    [industry |-> "Healthcare & Medical Services",
     keywords |-> <<"doctor", "nurse", "clinician", "hospital", "medical",
                    "healthcare", "therapist", "physician", "dentist", "surgeon">>],
    [industry |-> "Pharmaceuticals & Biotechnology",
     keywords |-> <<"biotech", "pharmaceutical", "drug", "clinical trials",
                    "genomics", "molecular">>],
    [industry |-> "Education & Training",
     keywords |-> <<"teacher", "professor", "lecturer", "instructor", "tutor",
                    "education", "curriculum", "school", "learning", "academic">>],
    [industry |-> "Education Technology (EdTech)",
     keywords |-> <<"edtech", "learning platform", "e-learning", "online courses",
                    "education technology", "mooc">>],
    [industry |-> "Green Technology & Renewable Energy",
     keywords |-> <<"renewable", "solar", "wind", "sustainability", "green energy",
                    "climate", "environmental", "clean tech", "carbon",
                    "energy transition">>],
    [industry |-> "Energy, Oil & Utilities",
     keywords |-> <<"petroleum", "oil", "gas", "utilities", "hydropower",
                    "nuclear">>],
    [industry |-> "Manufacturing & Industrial Engineering",
     keywords |-> <<"production", "manufacturing", "assembly", "automation",
                    "mechanical", "industrial", "plant", "maintenance",
                    "technician", "fabricator">>],
    [industry |-> "Transportation, Logistics & Supply Chain",
     keywords |-> <<"logistics", "supply chain", "transport", "delivery", "fleet",
                    "shipping", "driver", "freight", "warehousing">>],
    [industry |-> "Retail, E-commerce & Consumer Goods",
     keywords |-> <<"retail", "store", "sales", "associate", "merchandise",
                    "e-commerce", "shopping", "customer support", "buyer",
                    "shop manager">>],
    [industry |-> "Hospitality, Travel & Tourism",
     keywords |-> <<"hotel", "hospitality", "restaurant", "chef", "catering",
                    "travel", "tourism", "resort", "concierge", "bartender",
                    "waiter">>],
    [industry |-> "Digital Marketing & Advertising",
     keywords |-> <<"marketing", "seo", "sem", "social media", "advertising",
                    "growth", "content", "campaign", "influencer", "branding",
                    "performance marketing">>],
    [industry |-> "Creative, Design & Multimedia",
     keywords |-> <<"designer", "graphic", "illustrator", "ux", "ui", "creative",
                    "animator", "video editor", "photographer", "visual artist">>],
    [industry |-> "Media, Journalism & Entertainment",
     keywords |-> <<"journalist", "reporter", "media", "broadcaster", "radio",
                    "television", "producer", "actor", "film", "music",
                    "entertainment">>],
    [industry |-> "Real Estate & Property",
     keywords |-> <<"realtor", "broker", "real estate", "property", "leasing",
                    "valuation">>],
    [industry |-> "Legal & Compliance Services",
     keywords |-> <<"attorney", "lawyer", "legal", "solicitor", "paralegal",
                    "judge", "compliance", "contracts", "regulatory">>],
    [industry |-> "Government, Policy & Public Administration",
     keywords |-> <<"civil service", "government", "ambassador", "public sector",
                    "policy", "municipal", "federal", "state",
                    "regulatory officer">>],
    [industry |-> "Consulting & Professional Services",
     keywords |-> <<"consultant", "strategy", "operations", "management",
                    "executive", "advisor", "business consultant",
                    "corporate strategy">>],
    [industry |-> "Non-Profit & Social Impact",
     keywords |-> <<"non-profit", "charity", "ngo", "foundation", "volunteer",
                    "community", "humanitarian", "social worker">>],
    [industry |-> "Aerospace & Defense",
     keywords |-> <<"aerospace", "defense", "pilot", "aviation", "army",
                    "airforce", "military", "naval", "space", "satellite">>],
    [industry |-> "Agriculture, Food & Farming",
     keywords |-> <<"farmer", "agriculture", "horticulture", "crop",
                    "food processing", "fisheries", "livestock">>]
>>

DefaultIndustry == "General Business & Services"

\* first pass: the entries with a keyword that is a substring of the title
SubstringHits(title_lower) ==
    {i \in 1..Len(industry_keywords) :
        AnyIn(industry_keywords[i].keywords, title_lower)}

\* second pass: the entries with a keyword equal to a token of the title
TokenHits(title_lower) ==
    {i \in 1..Len(industry_keywords) :
        tokens_of(title_lower) \cap Range(industry_keywords[i].keywords) # {}}

\* the last hit in dict order for the first
LastHit(hits) == CHOOSE i \in hits : \A j \in hits : i >= j

\* the entry a for-loop over the dict returns at: the first hit in dict order
FirstHit(hits) == CHOOSE i \in hits : \A j \in hits : i <= j

_fallback_industry_inference(job_title) ==
    LET title_lower == lower(job_title)
        first  == SubstringHits(title_lower)
    IN  IF first # {} THEN industry_keywords[FirstHit(first)].industry
        ELSE LET second == TokenHits(title_lower)
             IN  IF second # {} THEN industry_keywords[FirstHit(second)].industry
                 ELSE DefaultIndustry

------------------------------------------------------------------------------
(* The completion service *)

\* What client.chat.completions.create does: it raises (a transport error or
\* a timeout), or it answers with response.choices[0].message.content, which
\* is a string or None.
ErrorResponse   == [kind |-> "error", content |-> None]
TimeoutResponse == [kind |-> "timeout", content |-> None]
OkResponse(c)   == [kind |-> "ok", content |-> c]

RECURSIVE Repeat(_, _)
\* c * n
Repeat(c, n) == IF n = 0 THEN "" ELSE c \o Repeat(c, n - 1)

\* answers of the service to the experience-level sub-prompt
ExpAnswers ==
    {"Senior", "  Mid-Level\n", "", "Experienced", "senior", "Senior Manager"}

\* answers of the service to the industry sub-prompt
IndAnswers ==
    {"Financial Services & Banking", "", " IT\n", "R&D",
     Repeat("x", 99), Repeat("x", 100)}

ClassifyResponses(answers) ==
    {ErrorResponse, TimeoutResponse, OkResponse(None)}
        \cup {OkResponse(c) : c \in answers}

Returned(v, tier) == [returned |-> TRUE, value |-> v, tier |-> tier, exc |-> None]
Raised(e)         == [returned |-> FALSE, value |-> None, tier |-> None, exc |-> e]

\* the exception the statements of a try block raise on this response, or None
TryException(response) ==
    IF response.kind = "error" THEN "APIConnectionError"
    ELSE IF response.kind = "timeout" THEN "APITimeoutError"
    ELSE IF response.content = None THEN "AttributeError"
    ELSE None

\* _get_experience_level without its except clause
_get_experience_level_no_except(years, job_title, response) ==
    IF TryException(response) # None
    THEN Raised(TryException(response))
    ELSE LET level == strip(response.content) IN
         IF \E valid \in valid_levels : IsSubstring(valid, level)
         THEN Returned(level, "remote")
         ELSE Returned(_fallback_experience_level(years, ""), "fallback")

_get_experience_level(years, job_title, response) ==
    IF TryException(response) # None
    THEN \* except Exception
         Returned(_fallback_experience_level(years, ""), "fallback")
    ELSE LET level == strip(response.content) IN
         IF \E valid \in valid_levels : IsSubstring(valid, level)
         THEN Returned(level, "remote")
         ELSE Returned(_fallback_experience_level(years, ""), "fallback")

\* _infer_industry with len(industry) >= 2 for len(industry) > 2
_infer_industry_ge2(job_title, response) ==
    IF TryException(response) # None
    THEN Returned(_fallback_industry_inference(job_title), "fallback")
    ELSE LET industry == strip(response.content) IN
         IF industry # "" /\ Len(industry) >= 2 /\ Len(industry) < 100
         THEN Returned(industry, "remote")
         ELSE Returned(_fallback_industry_inference(job_title), "fallback")

_infer_industry(job_title, response) ==
    IF TryException(response) # None
    THEN \* except Exception
         Returned(_fallback_industry_inference(job_title), "fallback")
    ELSE LET industry == strip(response.content) IN
         IF industry # "" /\ Len(industry) > 2 /\ Len(industry) < 100
         THEN Returned(industry, "remote")
         ELSE Returned(_fallback_industry_inference(job_title), "fallback")

------------------------------------------------------------------------------
(* Requests *)

\* seniority words put in front of a role to make a job title
TitlePrefixes ==
    {"", "Senior ", "Junior ", "Chief ", "Lead ", "Principal ", "VP of ",
     "Assistant ", "CEO and ", "Head of "}

\* roles
TitleRoles ==
    {"Software Engineer", "Machine Learning Engineer", "Data Scientist",
     "Analyst", "Internal Auditor", "Nurse", "Plumber", "Sales Manager",
     "Marketing Director", "Intern", "Zookeeper", "CTO", "Economist", "Doctor",
     "Teacher", "Graphic Designer", "Truck Driver", "Financial Officer"}

\* the job titles the fallbacks are applied to
Titles == {p \o r : p \in TitlePrefixes, r \in TitleRoles}

\* the job titles of the requests main() is run on
RequestTitles ==
    {"Senior Analyst", "Machine Learning Engineer", "Zookeeper"}

\* experience values, in 1/YearsScale years
Years == 0..(MaxYears * YearsScale)

\* the experience values of the requests main() is run on: whole years, and
\* the fractions of the first year
RequestYears == {y \in Years : y < YearsScale \/ y % YearsScale = 0}

\* JobParameters, as far as the classifiers and the prompt read it
JobParameters(title, experience) == [job_title |-> title, experience |-> experience]

------------------------------------------------------------------------------
(* The generated document *)

NoValue == [kind |-> "none"]
TextBody(t) == [kind |-> "text", text |-> t]
JsonBody(v) == [kind |-> "json", value |-> v]

Sections(skills) ==
    [Executive_Summary |-> "summary",
     Key_Responsibilities |-> <<"r1">>,
     Required_Qualifications |-> <<"q1">>,
     Preferred_Qualifications |-> <<"p1">>,
     What_We_Offer |-> <<"o1">>,
     skills |-> skills]

\* JSON objects the completion service answers the generation prompt with
Documents(title) ==
    {[timestamp |-> "ts", params |-> [job_title |-> title],
      outputs |-> [sections |-> Sections(<<"SQL", "Python">>)]],
     [timestamp |-> "ts", params |-> [job_title |-> title],
      outputs |-> [sections |-> Sections(<<"SQL", "SQL">>)]],
     [timestamp |-> "ts", outputs |-> [sections |-> Sections(<<"SQL">>)]],
     [timestamp |-> "ts", params |-> [job_title |-> title],
      outputs |-> [sections |-> Sections(<<>>)]],
     [timestamp |-> "ts", params |-> [job_title |-> title]]}

\* message.content of the generation call: None, text that is no JSON, or the
\* serialization of a JSON object
GenBodies(title) ==
    {NoValue, TextBody(""), TextBody("Sorry, I cannot help with that.")}
        \cup {JsonBody(d) : d \in Documents(title)}

GenResponses(title) ==
    {[kind |-> "error", content |-> NoValue], [kind |-> "timeout", content |-> NoValue]}
        \cup {OkResponse(b) : b \in GenBodies(title)}

\* generate, after _build_prompt: the create call is not in a try block, and
\* message.content is returned as it is
generate(response) ==
    IF response.kind = "error" THEN Raised("APIConnectionError")
    ELSE IF response.kind = "timeout" THEN Raised("APITimeoutError")
    ELSE Returned(response.content, None)

\* json.loads(job_desc_json)
json_loads(body) ==
    IF body.kind = "none" THEN Raised("TypeError")
    ELSE IF body.kind = "text" THEN Raised("JSONDecodeError")
    ELSE Returned(body.value, None)

AlnumChars == UpperChars \o LowerChars \o "0123456789"

RECURSIVE KeepSlugChars(_)
\* "".join(c for c in title if c.isalnum() or c in (" ", "_"))
KeepSlugChars(s) ==
    IF Len(s) = 0 THEN ""
    ELSE LET c == SubSeq(s, 1, 1) IN
         (IF IsSubstring(c, AlnumChars) \/ c \in {" ", "_"} THEN c ELSE "")
             \o KeepSlugChars(SubSeq(s, 2, Len(s)))

RECURSIVE ReplaceSpaces(_)
\* .replace(" ", "_")
ReplaceSpaces(s) ==
    IF Len(s) = 0 THEN ""
    ELSE (IF SubSeq(s, 1, 1) = " " THEN "_" ELSE SubSeq(s, 1, 1))
             \o ReplaceSpaces(SubSeq(s, 2, Len(s)))

\* the file save_job_description writes, or the exception it raises
save_job_description(job_desc) ==
    IF "params" \notin DOMAIN job_desc THEN Raised("KeyError")
    ELSE IF "job_title" \notin DOMAIN job_desc.params THEN Raised("KeyError")
    ELSE LET title == job_desc.params.job_title
             clean == lower(ReplaceSpaces(KeepSlugChars(title)))
         IN  Returned([path |-> "output/" \o clean \o "_ts.json",
                       content |-> job_desc], None)

------------------------------------------------------------------------------
(* The run of main() *)

VARIABLES
    pc,            \* the statement main() is at
    params,        \* the JobParameters load_config returned
    exp_resp,      \* what the service did on the experience-level call
    exp_level,     \* exp_level of _build_prompt
    exp_tier,      \* the return statement _get_experience_level left by
    ind_resp,      \* what the service did on the industry call
    industry,      \* industry of _build_prompt
    ind_tier,      \* the return statement _infer_industry left by
    prompt,        \* what _build_prompt embeds in the prompt
    gen_resp,      \* what the service did on the generation call
    calls,         \* the completion-service calls issued so far, in order
    job_desc_json, \* job_desc_json of main
    job_desc,      \* job_desc of main
    raised,        \* the exception that ended main(), or None
    files          \* the files written

vars == <<pc, params, exp_resp, exp_level, exp_tier, ind_resp, industry, ind_tier,
          prompt, gen_resp, calls, job_desc_json, job_desc, raised, files>>

NoResponse == [kind |-> "none", content |-> None]
NoGenResponse == [kind |-> "none", content |-> NoValue]
NoPrompt == [job_title |-> None, experience |-> 0, industry |-> None,
             experience_level |-> None]

Fresh ==
    /\ exp_resp = NoResponse /\ exp_level = None /\ exp_tier = None
    /\ ind_resp = NoResponse /\ industry = None /\ ind_tier = None
    /\ prompt = NoPrompt
    /\ gen_resp = NoGenResponse
    /\ calls = <<>>
    /\ job_desc_json = NoValue
    /\ job_desc = NoValue
    /\ raised = None
    /\ files = {}

Init ==
    /\ pc = "get_experience_level"
    /\ params \in {JobParameters(t, y) : t \in RequestTitles, y \in RequestYears}
    /\ Fresh

\* _build_prompt, line 383
GetExperienceLevel ==
    /\ pc = "get_experience_level"
    /\ \E response \in ClassifyResponses(ExpAnswers) :
         LET r == _get_experience_level(params.experience, params.job_title, response)
         IN  /\ exp_resp' = response
             /\ calls' = Append(calls, "experience_level")
             /\ exp_level' = r.value
             /\ exp_tier' = r.tier
             /\ raised' = r.exc
             /\ pc' = IF r.returned THEN "infer_industry" ELSE "aborted"
    /\ UNCHANGED <<params, ind_resp, industry, ind_tier, prompt, gen_resp,
                   job_desc_json, job_desc, files>>

\* InferIndustry calling the service a second time when the first call failed
InferIndustry_Retry ==
    /\ pc = "infer_industry"
    /\ \E response \in ClassifyResponses(IndAnswers) :
         LET r == _infer_industry(params.job_title, response)
         IN  /\ ind_resp' = response
             /\ calls' = IF TryException(response) # None
                         THEN Append(Append(calls, "industry"), "industry")
                         ELSE Append(calls, "industry")
             /\ industry' = r.value
             /\ ind_tier' = r.tier
             /\ raised' = r.exc
             /\ pc' = IF r.returned THEN "build_prompt" ELSE "aborted"
    /\ UNCHANGED <<params, exp_resp, exp_level, exp_tier, prompt, gen_resp,
                   job_desc_json, job_desc, files>>

\* _build_prompt, line 384
InferIndustry ==
    /\ pc = "infer_industry"
    /\ \E response \in ClassifyResponses(IndAnswers) :
         LET r == _infer_industry(params.job_title, response)
         IN  /\ ind_resp' = response
             /\ calls' = Append(calls, "industry")
             /\ industry' = r.value
             /\ ind_tier' = r.tier
             /\ raised' = r.exc
             /\ pc' = IF r.returned THEN "build_prompt" ELSE "aborted"
    /\ UNCHANGED <<params, exp_resp, exp_level, exp_tier, prompt, gen_resp,
                   job_desc_json, job_desc, files>>

\* _build_prompt, lines 385-446
_build_prompt(p, level, ind) ==
    [job_title |-> p.job_title, experience |-> p.experience, industry |-> ind,
     experience_level |-> level]

BuildPrompt ==
    /\ pc = "build_prompt"
    /\ prompt' = _build_prompt(params, exp_level, industry)
    /\ pc' = "create"
    /\ UNCHANGED <<params, exp_resp, exp_level, exp_tier, ind_resp, industry,
                   ind_tier, gen_resp, calls, job_desc_json, job_desc, raised, files>>

\* generate, lines 450-460
Generate ==
    /\ pc = "create"
    /\ \E response \in GenResponses(params.job_title) :
         LET r == generate(response)
         IN  /\ gen_resp' = response
             /\ calls' = Append(calls, "generation")
             /\ raised' = r.exc
             /\ IF r.returned
                THEN job_desc_json' = r.value /\ pc' = "json_loads"
                ELSE job_desc_json' = job_desc_json /\ pc' = "aborted"
    /\ UNCHANGED <<params, exp_resp, exp_level, exp_tier, ind_resp, industry,
                   ind_tier, prompt, job_desc, files>>

\* main, line 487
JsonLoads ==
    /\ pc = "json_loads"
    /\ LET r == json_loads(job_desc_json)
       IN  /\ raised' = r.exc
           /\ IF r.returned
              THEN job_desc' = JsonBody(r.value) /\ pc' = "save_job_description"
              ELSE job_desc' = job_desc /\ pc' = "aborted"
    /\ UNCHANGED <<params, exp_resp, exp_level, exp_tier, ind_resp, industry,
                   ind_tier, prompt, gen_resp, calls, job_desc_json, files>>

\* main, line 488
SaveJobDescription ==
    /\ pc = "save_job_description"
    /\ LET r == save_job_description(job_desc.value)
       IN  /\ raised' = r.exc
           /\ IF r.returned
              THEN files' = files \cup {r.value} /\ pc' = "done"
              ELSE files' = files /\ pc' = "aborted"
    /\ UNCHANGED <<params, exp_resp, exp_level, exp_tier, ind_resp, industry,
                   ind_tier, prompt, gen_resp, calls, job_desc_json, job_desc>>

Next ==
    \/ GetExperienceLevel
    \/ InferIndustry
    \/ BuildPrompt
    \/ Generate
    \/ JsonLoads
    \/ SaveJobDescription

Spec == Init /\ [][Next]_vars

------------------------------------------------------------------------------
(* The fallbacks applied on their own *)

\* a call of _fallback_experience_level(years, job_title), or a call of
\* _fallback_industry_inference(job_title)
FallbackInit ==
    /\ \/ /\ pc = "fallback_experience_level"
          /\ params \in {JobParameters(t, y) : t \in Titles, y \in Years}
       \/ /\ pc = "fallback_industry_inference"
          /\ params \in {JobParameters(t, 0) : t \in Titles}
    /\ Fresh

FallbackExperienceLevel ==
    /\ pc = "fallback_experience_level"
    /\ exp_level' = _fallback_experience_level(params.experience, params.job_title)
    /\ exp_tier' = "fallback"
    /\ pc' = "returned"
    /\ UNCHANGED <<params, exp_resp, ind_resp, industry, ind_tier, prompt,
                   gen_resp, calls, job_desc_json, job_desc, raised, files>>

FallbackIndustryInference ==
    /\ pc = "fallback_industry_inference"
    /\ industry' = _fallback_industry_inference(params.job_title)
    /\ ind_tier' = "fallback"
    /\ pc' = "returned"
    /\ UNCHANGED <<params, exp_resp, exp_level, exp_tier, ind_resp, prompt,
                   gen_resp, calls, job_desc_json, job_desc, raised, files>>

FallbackNext == FallbackExperienceLevel \/ FallbackIndustryInference

FallbackSpec == FallbackInit /\ [][FallbackNext]_vars

------------------------------------------------------------------------------
(* Properties of the classifiers in a run of main() *)

CallOrder == <<"experience_level", "industry", "generation">>

\* the remote call raised, or answered without a content to strip
CallFailed(response) ==
    response.kind \in {"error", "timeout"} \/ response.content = None

\* C1: _get_experience_level and _infer_industry never raise to their caller:
\* whatever the completion call did (transport error, timeout, no content,
\* rejected answer, accepted answer), each has returned a label, and main()
\* is never ended by an exception before the generation call.
C1_ClassifiersNeverRaise ==
    /\ Len(calls) >= 1 => exp_tier \in {"remote", "fallback"} /\ exp_level \notin {None, ""}
    /\ Len(calls) >= 2 => ind_tier \in {"remote", "fallback"} /\ industry \notin {None, ""}
    /\ pc = "aborted" => Len(calls) = Len(CallOrder)

\* both classifiers have returned after a failed remote call
C1_Witness ==
    /\ pc = "build_prompt"
    /\ exp_resp = TimeoutResponse
    /\ ind_resp = OkResponse(None)
    /\ exp_level = "Junior"
    /\ industry = "General Business & Services"

\* C2: for both attributes the fallback is used exactly when the remote call
\* failed or its stripped answer failed validation (experience level: none of
\* the ten terms is a substring of it; industry: its length is not strictly
\* between 2 and 100); an answer that passes validation is the result.
C2_FallbackExactlyOnFailure ==
    /\ exp_tier # None =>
         LET rejected ==
                 /\ ~CallFailed(exp_resp)
                 /\ \A term \in valid_levels :
                        ~IsSubstring(term, strip(exp_resp.content))
         IN  /\ exp_tier = "fallback" <=> (CallFailed(exp_resp) \/ rejected)
             /\ exp_tier = "remote" => exp_level = strip(exp_resp.content)
    /\ ind_tier # None =>
         LET rejected ==
                 /\ ~CallFailed(ind_resp)
                 /\ ~(2 < Len(strip(ind_resp.content))
                        /\ Len(strip(ind_resp.content)) < 100)
         IN  /\ ind_tier = "fallback" <=> (CallFailed(ind_resp) \/ rejected)
             /\ ind_tier = "remote" => industry = strip(ind_resp.content)

\* an accepted experience answer, and an industry answer rejected for its
\* stripped length of 2
C2_Witness ==
    /\ exp_resp = OkResponse("  Mid-Level\n") /\ exp_tier = "remote"
    /\ exp_level = "Mid-Level"
    /\ ind_resp = OkResponse(" IT\n") /\ ind_tier = "fallback"

\* C3: when the remote experience-level call fails or its answer is rejected,
\* the result is that of the title-first fallback for the same (years,
\* job_title).
C3_FallbackSeesTitle ==
    exp_tier = "fallback" =>
        exp_level = _fallback_experience_level(params.experience, params.job_title)

\* C6: the experience level _get_experience_level produces, and the one the
\* prompt embeds, is one of the ten vocabulary members.
C6_LevelInVocabulary ==
    /\ exp_level # None => exp_level \in valid_levels
    /\ prompt # NoPrompt => prompt.experience_level \in valid_levels

\* C9: one run issues, in this order and one after the other, one call for
\* the experience level, one for the industry and one for the document; no
\* call is issued twice, the run ends with exactly one generation call, and
\* that call is issued only after both classifications have a result, which
\* the prompt embeds.
C9_CallSequence ==
    /\ Len(calls) <= Len(CallOrder)
    /\ calls = SubSeq(CallOrder, 1, Len(calls))
    /\ pc \in {"json_loads", "save_job_description", "done", "aborted"}
         => calls = CallOrder
    /\ "generation" \in Range(calls) =>
         /\ exp_level # None /\ industry # None
         /\ prompt.experience_level = exp_level /\ prompt.industry = industry

\* a finished run whose industry call failed
C9_Witness ==
    /\ pc = "done"
    /\ calls = CallOrder
    /\ exp_tier = "remote"
    /\ ind_resp = ErrorResponse /\ ind_tier = "fallback"
    /\ files # {}

\* the generation call raised, or answered with an empty body
GenerationFailed ==
    \/ gen_resp.kind \in {"error", "timeout"}
    \/ gen_resp.kind = "ok" /\ gen_resp.content = TextBody("")

\* C10: if the generation call errors, times out or returns an empty body,
\* generate itself fails (it returns nothing to main), the run is aborted and
\* no file is written.
C10_GenerationFailureAborts ==
    GenerationFailed =>
        /\ pc = "aborted" /\ raised # None
        /\ job_desc_json = NoValue /\ job_desc = NoValue
        /\ files = {}

------------------------------------------------------------------------------
(* Properties of the fallbacks *)

\* the keywords of the title scan of _fallback_experience_level
SeniorityKeywords ==
    <<"intern", "trainee", "apprentice", "junior", "assistant", "associate",
      "senior", "sr.", "lead", "head", "principal", "manager", "director",
      "vp", "vice president",
      "chief", "cfo", "ceo", "coo", "cto", "cio", "cmo", "c-level">>

ChiefKeywords == <<"chief", "cfo", "ceo", "coo", "cto", "cio", "cmo", "c-level">>

\* the rungs of the ladder, lowest first: below this many years, this level
LadderRungs ==
    <<[below |-> 1, level |-> "Entry Level"], [below |-> 3, level |-> "Junior"],
      [below |-> 7, level |-> "Mid-Level"], [below |-> 12, level |-> "Senior"],
      [below |-> 18, level |-> "Manager"], [below |-> 25, level |-> "Director"]>>

\* the rung of a level: 7 for Executive, the top of the ladder
RungOf(level) ==
    IF \E i \in 1..Len(LadderRungs) : LadderRungs[i].level = level
    THEN CHOOSE i \in 1..Len(LadderRungs) : LadderRungs[i].level = level
    ELSE IF level = "Executive" THEN Len(LadderRungs) + 1 ELSE 0

\* C4: for a title with no seniority keyword the fallback follows the years
\* ladder (< 1 Entry Level, < 3 Junior, < 7 Mid-Level, < 12 Senior,
\* < 18 Manager, < 25 Director, otherwise Executive), the ladder is monotonic
\* and it never yields Lead, Principal or C-Level.
C4_YearsLadder ==
    (exp_tier = "fallback" /\ ~AnyIn(SeniorityKeywords, lower(params.job_title))) =>
        LET y == params.experience
            reached == {i \in 1..Len(LadderRungs) : y < LadderRungs[i].below * YearsScale}
        IN  /\ reached # {} =>
                  \E i \in reached : /\ \A j \in reached : i <= j
                                     /\ exp_level = LadderRungs[i].level
            /\ reached = {} => exp_level = "Executive"
            /\ exp_level \notin {"Lead", "Principal", "C-Level"}
            /\ RungOf(exp_level) > 0
            /\ y > 0 =>
                  RungOf(_fallback_experience_level(y - 1, params.job_title))
                      <= RungOf(exp_level)

\* twelve years with a title that has no seniority keyword
C4_Witness ==
    /\ exp_tier = "fallback"
    /\ params = JobParameters("Zookeeper", 12 * YearsScale)
    /\ exp_level = "Manager"

\* C5: for a title containing "chief" or a C-suite abbreviation the fallback
\* never returns Entry Level, whatever the years.
C5_ChiefNeverEntryLevel ==
    (exp_tier = "fallback" /\ AnyIn(ChiefKeywords, lower(params.job_title))) =>
        exp_level # "Entry Level"

\* the entries of the table with a keyword that is a substring of the title
MatchingEntries(job_title) ==
    LET title == lower(job_title)
    IN  {i \in 1..Len(industry_keywords) :
            \E k \in 1..Len(industry_keywords[i].keywords) :
                IsSubstring(industry_keywords[i].keywords[k], title)}

\* C7: the industry fallback is order-stable: for a title matching the
\* keyword lists of several categories the result is the category that comes
\* first in the table, and with no matching category it is the default.
C7_OrderStable ==
    ind_tier = "fallback" =>
        LET matching == MatchingEntries(params.job_title)
        IN  IF matching = {}
            THEN industry = "General Business & Services"
            ELSE \E i \in matching :
                    /\ \A j \in matching : i <= j
                    /\ industry = industry_keywords[i].industry

\* a title that matches the keyword lists of several categories
C7_Witness ==
    /\ ind_tier = "fallback"
    /\ params.job_title = "Senior Machine Learning Engineer"
    /\ Cardinality(MatchingEntries(params.job_title)) >= 2
    /\ industry = "Technology & Software Development"

EntryOf(name) ==
    CHOOSE i \in 1..Len(industry_keywords) : industry_keywords[i].industry = name

\* C8: a title that matches both an AI/ML keyword and a Technology keyword is
\* classified as Artificial Intelligence & Machine Learning.
C8_AIBeforeTechnology ==
    (/\ ind_tier = "fallback"
     /\ EntryOf("Artificial Intelligence & Machine Learning")
            \in MatchingEntries(params.job_title)
     /\ EntryOf("Technology & Software Development")
            \in MatchingEntries(params.job_title)) =>
        industry = "Artificial Intelligence & Machine Learning"

------------------------------------------------------------------------------
(* Properties of what main() writes *)

\* the keys of outputs.sections the schema names
SectionKeys ==
    {"Executive_Summary", "Key_Responsibilities", "Required_Qualifications",
     "Preferred_Qualifications", "What_We_Offer", "skills"}

\* every required field and section of the document is present and non-empty
CompleteDocument(doc) ==
    /\ {"timestamp", "params", "outputs"} \subseteq DOMAIN doc
    /\ Len(doc.timestamp) > 0
    /\ "job_title" \in DOMAIN doc.params
    /\ "sections" \in DOMAIN doc.outputs
    /\ SectionKeys \subseteq DOMAIN doc.outputs.sections
    /\ \A k \in SectionKeys : Len(doc.outputs.sections[k]) > 0

\* C11: a document is written only if the response is structured data with
\* every required field and section present and non-empty; in every other
\* case the run ends with an exception and nothing is written.
C11_PersistedOnlyIfComplete ==
    /\ \A f \in files : CompleteDocument(f.content)
    /\ (pc = "done" /\ gen_resp.content.kind = "json")
          => CompleteDocument(gen_resp.content.value)

\* the document has a skills list
HasSkills(doc) ==
    /\ "outputs" \in DOMAIN doc
    /\ "sections" \in DOMAIN doc.outputs
    /\ "skills" \in DOMAIN doc.outputs.sections

\* C12: the skills list of every document handed to save_job_description has
\* no two equal entries, also when the response had some.
C12_SkillsWithoutDuplicates ==
    \A f \in files :
        HasSkills(f.content) =>
            LET skills == f.content.outputs.sections.skills
            IN  \A i, j \in 1..Len(skills) : i # j => skills[i] # skills[j]

------------------------------------------------------------------------------
(* The second pass of _fallback_industry_inference *)

\* every keyword of the table
AllKeywords ==
    UNION {Range(industry_keywords[i].keywords) : i \in 1..Len(industry_keywords)}

\* C13: the token pass never decides the result: when no keyword of any
\* category is a substring of the lowercased title, no whitespace-separated
\* token of the title is a keyword either and the result is the default
\* label; otherwise the result is that of a category with a substring match.
C13_TokenPassNeverDecides ==
    ind_tier = "fallback" =>
        LET matching == MatchingEntries(params.job_title)
        IN  /\ matching = {} =>
                 /\ tokens_of(lower(params.job_title)) \cap AllKeywords = {}
                 /\ industry = "General Business & Services"
            /\ matching # {} =>
                 \E i \in matching : industry = industry_keywords[i].industry

\* a title of two tokens with no keyword in it
C13_Witness ==
    /\ ind_tier = "fallback"
    /\ params.job_title = "Assistant Plumber"
    /\ MatchingEntries(params.job_title) = {}
    /\ Cardinality(tokens_of(lower(params.job_title))) = 2
    /\ industry = DefaultIndustry
====
